---- MODULE Spec2Model ----
(***************************************************************************)
(* Model of the book-metadata-fetcher plugin (src/main.ts): the command    *)
(* fetchMetadata, the lookup fetchBookMetadata and the text surgery of     *)
(* updateNoteWithMetadata.                                                 *)
(*                                                                         *)
(* A JavaScript string is a sequence of one-character strings.  Positions  *)
(* are JavaScript's, counted from 0; the character at position i of s is   *)
(* s[i + 1].  A character that cannot be written in a string here is the   *)
(* token of its code point ("U+2028"); the grave accent is "GRAVE".  An    *)
(* optional JSON member is a sequence of length 0 (absent) or 1 (present). *)
(***************************************************************************)
EXTENDS Integers, Sequences, FiniteSets, TLC

\* ------------------------------------------------------------------------
\* JavaScript string and regular-expression primitives used by the plugin
\* ------------------------------------------------------------------------

Min(S) == CHOOSE x \in S : \A y \in S : x <= y

Max(S) == CHOOSE x \in S : \A y \in S : x >= y

\* the grave accent
GraveAccent == "GRAVE"

\* LineTerminator of ECMAScript: LF, CR, LINE SEPARATOR, PARAGRAPH SEPARATOR
LineTerminators == {"\n", "\r", "U+2028", "U+2029"}

\* WhiteSpace of ECMAScript: TAB, VT, FF, ZWNBSP and the space separators
WhiteSpaces ==
    {"\t", "U+000B", "\f", "U+FEFF", " ", "U+00A0", "U+1680", "U+2000",
     "U+2001", "U+2002", "U+2003", "U+2004", "U+2005", "U+2006", "U+2007",
     "U+2008", "U+2009", "U+200A", "U+202F", "U+205F", "U+3000"}

\* what "." does not match and where a multiline "^" / "$" anchors
IsLineTerminator(c) == c \in LineTerminators

\* WhiteSpace and LineTerminator characters, removed by trim / trimStart
IsWhiteSpace(c) == c \in WhiteSpaces \union LineTerminators

\* s has pat at position i
StartsWithAt(s, pat, i) ==
    /\ i >= 0
    /\ i + Len(pat) <= Len(s)
    /\ \A k \in 1..Len(pat) : s[i + k] = pat[k]

\* String.prototype.indexOf(pat, from): the first position >= from, or -1
IndexOf(s, pat, from) ==
    LET start == IF from < 0 THEN 0 ELSE from
        hits == {i \in start..(Len(s) - Len(pat)) : StartsWithAt(s, pat, i)}
    IN  IF hits = {} THEN -1 ELSE Min(hits)

\* String.prototype.substring(a, b) for 0 <= a <= b; b is clamped to the length
Substring(s, a, b) == SubSeq(s, a + 1, IF b > Len(s) THEN Len(s) ELSE b)

\* String.prototype.substring(a)
SubstringFrom(s, a) == SubSeq(s, a + 1, Len(s))

\* String.prototype.trimStart()
TrimStart(s) ==
    LET keep == {i \in 1..Len(s) : ~IsWhiteSpace(s[i])}
    IN  IF keep = {} THEN <<>> ELSE SubSeq(s, Min(keep), Len(s))

\* String.prototype.trim()
Trim(s) ==
    LET keep == {i \in 1..Len(s) : ~IsWhiteSpace(s[i])}
    IN  IF keep = {} THEN <<>> ELSE SubSeq(s, Min(keep), Max(keep))

\* s.replace(/"/g, '\\"'): every double quote becomes backslash, double quote
RECURSIVE EscapeQuotes(_)
EscapeQuotes(s) ==
    IF s = <<>> THEN <<>>
    ELSE (IF Head(s) = "\"" THEN <<"\\", "\"">> ELSE <<Head(s)>>)
             \o EscapeQuotes(Tail(s))

\* GetSubstitution of ECMAScript for a pattern without capture groups: in the
\* replacement text "$$" is "$", "$&" the matched text, "$" with a grave accent
\* the text before the match and "$'" the text after the match; any other "$"
\* stands for itself.
RECURSIVE GetSubstitution(_, _, _, _)
GetSubstitution(matched, str, position, replacement) ==
    IF replacement = <<>> THEN <<>>
    ELSE IF Head(replacement) = "$" /\ Len(replacement) >= 2
              /\ replacement[2] \in {"$", "&", GraveAccent, "'"}
         THEN LET rest == SubSeq(replacement, 3, Len(replacement))
                  put  == CASE replacement[2] = "$" -> <<"$">>
                            [] replacement[2] = "&" -> matched
                            [] replacement[2] = GraveAccent ->
                                 SubSeq(str, 1, position)
                            [] OTHER ->
                                 SubSeq(str, position + Len(matched) + 1, Len(str))
              IN  put \o GetSubstitution(matched, str, position, rest)
         ELSE <<Head(replacement)>>
                  \o GetSubstitution(matched, str, position, Tail(replacement))

\* String.prototype.replace for one match str[start, end): the text before
\* the match, the expanded replacement, the text after the match.
ReplaceMatch(str, start, end, replacement) ==
    SubSeq(str, 1, start)
        \o GetSubstitution(SubSeq(str, start + 1, end), str, start, replacement)
        \o SubSeq(str, end + 1, Len(str))

\* str.replace(pat, replacement) with a string pattern: the first occurrence
ReplaceString(str, pat, replacement) ==
    LET at == IndexOf(str, pat, 0)
    IN  IF at = -1 THEN str
        ELSE ReplaceMatch(str, at, at + Len(pat), replacement)

NoMatch == [start |-> -1, end |-> -1]

\* new RegExp('^' + key + ':.*$', 'm') on s: the first line start followed by
\* "key:", up to the end of that line.
KeyLineMatch(s, key) ==
    LET pat    == key \o <<":">>
        starts == {i \in 0..Len(s) :
                     /\ (i = 0 \/ IsLineTerminator(s[i]))
                     /\ StartsWithAt(s, pat, i)}
    IN  IF starts = {} THEN NoMatch
        ELSE LET st   == Min(starts)
                 ends == {j \in (st + Len(pat))..Len(s) :
                            j = Len(s) \/ IsLineTerminator(s[j + 1])}
             IN  [start |-> st, end |-> Min(ends)]

\* /\n---$/ on s (no multiline flag): "$" is the end of the text only
ClosingDelimiterMatch(s) ==
    IF StartsWithAt(s, <<"\n","-","-","-">>, Len(s) - 4)
    THEN [start |-> Len(s) - 4, end |-> Len(s)]
    ELSE NoMatch

\* no line terminator among the positions a .. b - 1 of s
NoTerminatorIn(s, a, b) == \A k \in a..(b - 1) : ~IsLineTerminator(s[k + 1])

\* /!\[.*?\|300\]\(.*\)/ on s: from the leftmost "![" that can reach, on its
\* own line, the nearest "|300](" (lazy) that has a ")" after it on the same
\* line; the match ends after the last such ")" (greedy).
ImageMatch(s) ==
    LET Closers(q) == {e \in (q + 6)..(Len(s) - 1) :
                         s[e + 1] = ")" /\ NoTerminatorIn(s, q + 6, e)}
        Sizes(p)   == {q \in (p + 2)..Len(s) :
                         /\ StartsWithAt(s, <<"|","3","0","0","]","(">>, q)
                         /\ NoTerminatorIn(s, p + 2, q)
                         /\ Closers(q) # {}}
        starts     == {p \in 0..Len(s) :
                         StartsWithAt(s, <<"!","[">>, p) /\ Sizes(p) # {}}
    IN  IF starts = {} THEN NoMatch
        ELSE LET p == Min(starts)
                 q == Min(Sizes(p))
             IN  [start |-> p, end |-> Max(Closers(q)) + 1]

Digits == <<"0", "1", "2", "3", "4", "5", "6", "7", "8", "9">>

\* template conversion of a non-negative integer n to its decimal digits
RECURSIVE NumberToString(_)
NumberToString(n) ==
    IF n < 10 THEN <<Digits[n + 1]>>
    ELSE NumberToString(n \div 10) \o <<Digits[(n % 10) + 1]>>

\* Array.prototype.join(sep)
RECURSIVE Join(_, _)
Join(parts, sep) ==
    IF parts = <<>> THEN <<>>
    ELSE IF Len(parts) = 1 THEN parts[1]
    ELSE parts[1] \o sep \o Join(Tail(parts), sep)

\* ------------------------------------------------------------------------
\* Errors and notices
\* ------------------------------------------------------------------------

\* A thrown value: its constructor, its message template and the text the
\* template interpolates.  NoError is "nothing thrown".
NoError == [name |-> "none", message |-> "", arg |-> <<>>]

NotFoundError(ean) ==
    [name |-> "Error",
     message |-> "No book found for EAN ${ean} on Google Books.",
     arg |-> ean]

MalformedError ==
    [name |-> "Error",
     message |-> "Frontmatter not found or malformed in the note.",
     arg |-> <<>>]

\* reading a property of undefined
TypeError(property) ==
    [name |-> "TypeError",
     message |-> "Cannot read properties of undefined (reading '${property}')",
     arg |-> property]

\* requestUrl rejected: no connection, an HTTP error status, a body that is
\* not JSON
RequestError ==
    [name |-> "Error", message |-> "Request failed", arg |-> <<>>]

\* vault.read rejected by the host
ReadError ==
    [name |-> "Error", message |-> "ENOENT: no such file", arg |-> <<>>]

\* vault.modify rejected by the host
ModifyError ==
    [name |-> "Error", message |-> "EACCES: permission denied", arg |-> <<>>]

\* requestUrl rejected with a value that is not an Error (a string)
NonErrorRejection == [name |-> "string", message |-> "", arg |-> <<>>]

\* error instanceof Error
InstanceOfError(error) == error.name \in {"Error", "TypeError"}

\* new Notice(text): the template of the text and what it interpolates
Notice(template, arg) == [template |-> template, arg |-> arg]

NoFileNotice == Notice("Please open a book note to use this command.", <<>>)

MissingEanNotice ==
    Notice("The \"ean\" property is missing in the Frontmatter.", <<>>)

SearchingNotice(ean) == Notice("Searching for book with EAN: ${ean}...", ean)

SuccessNotice == Notice("Book metadata successfully updated!", <<>>)

\* the catch block: the message of an Error, a fixed text for any other value
ErrorNotice(error) ==
    IF InstanceOfError(error)
    THEN Notice("Error: " \o error.message, error.arg)
    ELSE Notice("Error: An unknown error occurred.", <<>>)

\* ------------------------------------------------------------------------
\* fetchBookMetadata
\* ------------------------------------------------------------------------

NoMetadata ==
    [title |-> <<>>, author |-> <<>>, publisher |-> <<>>, pageCount |-> 0,
     publishedDate |-> <<>>, coverUrl |-> <<>>]

\* text || fallback: an absent member and the empty string are falsy
OrDefault(member, fallback) ==
    IF Len(member) = 1 /\ Len(member[1]) > 0 THEN member[1] ELSE fallback

\* volumeInfo.authors ? volumeInfo.authors.join(', ') : 'Unknown Author'
AuthorOf(volumeInfo) ==
    IF Len(volumeInfo.authors) = 1
    THEN Join(volumeInfo.authors[1], <<","," ">>)
    ELSE <<"U","n","k","n","o","w","n"," ","A","u","t","h","o","r">>

\* volumeInfo.pageCount || 0
PageCountOf(volumeInfo) ==
    IF Len(volumeInfo.pageCount) = 1 THEN volumeInfo.pageCount[1] ELSE 0

\* volumeInfo.imageLinks?.thumbnail.replace('zoom=1', 'zoom=5')
\*     || 'No cover available'
\* The optional chain stops at an absent imageLinks only: with imageLinks
\* present and no thumbnail, replace is read from undefined.
CoverUrlOf(volumeInfo) ==
    IF Len(volumeInfo.imageLinks) = 0
    THEN [threw |-> NoError, value |-> <<"N","o"," ","c","o","v","e","r"," ","a","v","a","i","l","a","b","l","e">>]
    ELSE LET thumbnail == volumeInfo.imageLinks[1].thumbnail
         IN  IF Len(thumbnail) = 0
             THEN [threw |-> TypeError(<<"r","e","p","l","a","c","e">>), value |-> <<>>]
             ELSE LET upgraded ==
                          ReplaceString(thumbnail[1], <<"z","o","o","m","=","1">>, <<"z","o","o","m","=","5">>)
                  IN  [threw |-> NoError,
                       value |-> IF Len(upgraded) > 0 THEN upgraded
                                 ELSE <<"N","o"," ","c","o","v","e","r"," ","a","v","a","i","l","a","b","l","e">>]

\* data.totalItems === 0 || !data.items?.[0]
NoFirstItem(data) ==
    \/ data.totalItems = 0
    \/ Len(data.items) = 0
    \/ Len(data.items[1]) = 0

\* fetchBookMetadata(ean) once requestUrl has settled with reply
fetchBookMetadata(ean, reply) ==
    IF reply.failed THEN [threw |-> reply.rejection, metadata |-> NoMetadata]
    ELSE IF NoFirstItem(reply.json)
    THEN [threw |-> NotFoundError(ean), metadata |-> NoMetadata]
    ELSE LET item == reply.json.items[1][1]
         IN  IF Len(item.volumeInfo) = 0
             THEN [threw |-> TypeError(<<"t","i","t","l","e">>), metadata |-> NoMetadata]
             ELSE LET volumeInfo == item.volumeInfo[1]
                      cover      == CoverUrlOf(volumeInfo)
                  IN  IF cover.threw # NoError
                      THEN [threw |-> cover.threw, metadata |-> NoMetadata]
                      ELSE [threw |-> NoError,
                            metadata |->
                              [title |-> OrDefault(volumeInfo.title,
                                                   <<"U","n","k","n","o","w","n"," ","T","i","t","l","e">>),
                               author |-> AuthorOf(volumeInfo),
                               publisher |-> OrDefault(volumeInfo.publisher,
                                                       <<"U","n","k","n","o","w","n"," ","P","u","b","l","i","s","h","e","r">>),
                               pageCount |-> PageCountOf(volumeInfo),
                               publishedDate |->
                                   OrDefault(volumeInfo.publishedDate,
                                             <<"U","n","k","n","o","w","n"," ","D","a","t","e">>),
                               coverUrl |-> cover.value]]

\* ------------------------------------------------------------------------
\* updateNoteWithMetadata
\* ------------------------------------------------------------------------

Delimiter == <<"-","-","-">>

\* "text" in double quotes
Quoted(text) == <<"\"">> \o text \o <<"\"">>

\* the five lines to add or update; published_date is not escaped
newFrontmatterLines(metadata) ==
    << <<"t","i","t","l","e",":"," ">> \o Quoted(EscapeQuotes(metadata.title)),
       <<"a","u","t","h","o","r",":"," ">> \o Quoted(EscapeQuotes(metadata.author)),
       <<"e","d","i","t","o","r",":"," ">> \o Quoted(EscapeQuotes(metadata.publisher)),
       <<"p","a","g","e","s",":"," ">> \o NumberToString(metadata.pageCount),
       <<"p","u","b","l","i","s","h","e","d","_","d","a","t","e",":"," ">> \o Quoted(metadata.publishedDate) >>

keysToUpdate ==
    << <<"t","i","t","l","e">>, <<"a","u","t","h","o","r">>, <<"e","d","i","t","o","r">>, <<"p","a","g","e","s">>, <<"p","u","b","l","i","s","h","e","d","_","d","a","t","e">> >>

\* newFrontmatterLines.find(line => line.startsWith(key + ':')): a sequence
\* holding the first such line, or the empty sequence (undefined)
FindLine(lines, key) ==
    LET hits == {k \in 1..Len(lines) : StartsWithAt(lines[k], key \o <<":">>, 0)}
    IN  IF hits = {} THEN <<>> ELSE <<lines[Min(hits)]>>

\* one turn of the loop over keysToUpdate
UpdateKey(frontmatter, key, lines) ==
    LET newLine == FindLine(lines, key)
        line    == KeyLineMatch(frontmatter, key)
        closing == ClosingDelimiterMatch(frontmatter)
    IN  IF newLine = <<>> THEN frontmatter
        ELSE IF line # NoMatch
        THEN ReplaceMatch(frontmatter, line.start, line.end, newLine[1])
        ELSE IF closing # NoMatch
        THEN ReplaceMatch(frontmatter, closing.start, closing.end,
                          <<"\n">> \o newLine[1] \o <<"\n","-","-","-">>)
        ELSE frontmatter

\* the loop over keysToUpdate
RECURSIVE UpdateKeys(_, _, _)
UpdateKeys(frontmatter, keys, lines) ==
    IF keys = <<>> THEN frontmatter
    ELSE UpdateKeys(UpdateKey(frontmatter, Head(keys), lines), Tail(keys), lines)

imageMarkdown(metadata) == <<"!","[","B","o","o","k"," ","C","o","v","e","r","|","3","0","0","]","(">> \o metadata.coverUrl \o <<")">>

\* the body with the cover image replaced or added
UpdateBody(contentBlock, metadata) ==
    LET image == ImageMatch(contentBlock)
    IN  IF image # NoMatch
        THEN Trim(ReplaceMatch(contentBlock, image.start, image.end,
                               imageMarkdown(metadata)))
        ELSE Trim(imageMarkdown(metadata) \o <<"\n","\n">> \o contentBlock)

\* content.indexOf('---', content.indexOf('---') + 3)
fmEndMatchIndex(content) ==
    IndexOf(content, Delimiter, IndexOf(content, Delimiter, 0) + 3)

\* content.substring(0, fmEndMatchIndex + 3)
frontmatterBlock(content, fmEnd) == Substring(content, 0, fmEnd + 3)

\* content.substring(fmEndMatchIndex + 3).trimStart()
contentBlock(content, fmEnd) == TrimStart(SubstringFrom(content, fmEnd + 3))

\* newFrontmatter after the loop, starting from the block of the text read
newFrontmatter(block, metadata) ==
    UpdateKeys(block, keysToUpdate, newFrontmatterLines(metadata))

\* updateNoteWithMetadata from the text read to the text handed to
\* vault.modify, or the error thrown
updateNoteWithMetadata(content, metadata) ==
    LET fmEnd == fmEndMatchIndex(content)
    IN  IF fmEnd = -1
        THEN [threw |-> MalformedError, finalContent |-> <<>>]
        ELSE [threw |-> NoError,
              finalContent |->
                  newFrontmatter(frontmatterBlock(content, fmEnd), metadata)
                      \o <<"\n">>
                      \o UpdateBody(contentBlock(content, fmEnd), metadata)]

\* ------------------------------------------------------------------------
\* Inputs: notes of the vault and replies of the lookup service
\* ------------------------------------------------------------------------

Ean == <<"9","7","8","0","1","4","0","4","4","9","1","3","6">>

\* A value of the frontmatter as the metadata cache holds it: its type and
\* the text a template literal makes of it.
EanValue == [type |-> "number", text |-> Ean]

\* !ean is taken for undefined, null, the empty string, 0 and NaN
ToBoolean(value) ==
    CASE value.type = "string" -> Len(value.text) > 0
      [] value.type = "number" -> value.text \notin { <<"0">>, <<"N","a","N">> }
      [] value.type = "null"   -> FALSE

\* `${ean}`
StringOf(value) == value.text

\* ---
\* ean: 9780140449136
\* ---
\* Some notes.
PlainNote ==
    [text |-> <<"-","-","-","\n","e","a","n",":"," ","9","7","8","0","1","4","0","4","4","9","1","3","6","\n","-","-","-","\n","S","o","m","e"," ","n","o","t","e","s",".">>, ean |-> <<EanValue>>]

\* a note already synced once: three target keys, another key, a sized cover
\* text: ---\ntitle: "Old"\nean: 9780140449136\npages: 1\nrating: 5\n---\n\n![Old|300](http://old)\nText
SyncedNote ==
    [text |-> <<"-","-","-","\n","t","i","t","l","e",":"," ","\"","O","l","d","\"","\n","e","a","n",":"," ","9","7","8","0","1","4","0","4","4","9","1","3","6","\n","p","a","g","e","s",":"," ","1","\n","r","a","t","i","n","g",":"," ","5","\n","-","-","-","\n","\n","!","[","O","l","d","|","3","0","0","]","(","h","t","t","p",":","/","/","o","l","d",")","\n","T","e","x","t">>,
     ean |-> <<EanValue>>]

\* a block without the ean key
NoEanNote == [text |-> <<"-","-","-","\n","r","a","t","i","n","g",":"," ","5","\n","-","-","-","\n","T","e","x","t">>, ean |-> <<>>]

\* a single delimiter line, nothing else holding three hyphens
OneDelimiterNote ==
    [text |-> <<"-","-","-","\n","e","a","n",":"," ","9","7","8","0","1","4","0","4","4","9","1","3","6","\n","T","e","x","t">>, ean |-> <<EanValue>>]

\* a single delimiter line, and a later line holding three hyphens in its text
\* text: ---\nean: 9780140449136\nsee a---b
OneDelimiterDashNote ==
    [text |-> <<"-","-","-","\n","e","a","n",":"," ","9","7","8","0","1","4","0","4","4","9","1","3","6","\n","s","e","e"," ","a","-","-","-","b">>, ean |-> <<EanValue>>]

\* two sized images on two lines of the body
\* text: ---\nean: 9780140449136\n---\n![A|300](a)\n![B|300](b)
TwoCoversNote ==
    [text |-> <<"-","-","-","\n","e","a","n",":"," ","9","7","8","0","1","4","0","4","4","9","1","3","6","\n","-","-","-","\n","!","[","A","|","3","0","0","]","(","a",")","\n","!","[","B","|","3","0","0","]","(","b",")">>,
     ean |-> <<EanValue>>]

\* an image without size, then a sized image, on one line of the body
\* text: ---\nean: 9780140449136\n---\n![pic](p) ![C|300](c)
MixedImagesNote ==
    [text |-> <<"-","-","-","\n","e","a","n",":"," ","9","7","8","0","1","4","0","4","4","9","1","3","6","\n","-","-","-","\n","!","[","p","i","c","]","(","p",")"," ","!","[","C","|","3","0","0","]","(","c",")">>,
     ean |-> <<EanValue>>]

\* a block line holding three hyphens in its value
\* text: ---\nean: 9780140449136\nnote: a---b\n---\nText
DashValueNote ==
    [text |-> <<"-","-","-","\n","e","a","n",":"," ","9","7","8","0","1","4","0","4","4","9","1","3","6","\n","n","o","t","e",":"," ","a","-","-","-","b","\n","-","-","-","\n","T","e","x","t">>,
     ean |-> <<EanValue>>]

\* ean: ""
EmptyEanNote ==
    [text |-> <<"-","-","-","\n","e","a","n",":"," ","\"","\"","\n","-","-","-","\n","T","e","x","t">>,
     ean |-> <<[type |-> "string", text |-> <<>>]>>]

\* ean: 0
ZeroEanNote ==
    [text |-> <<"-","-","-","\n","e","a","n",":"," ","0","\n","-","-","-","\n","T","e","x","t">>,
     ean |-> <<[type |-> "number", text |-> <<"0">>]>>]

\* ean: with nothing after the colon
NullEanNote ==
    [text |-> <<"-","-","-","\n","e","a","n",":","\n","-","-","-","\n","T","e","x","t">>,
     ean |-> <<[type |-> "null", text |-> <<"n","u","l","l">>]>>]

Notes ==
    {PlainNote, SyncedNote, NoEanNote, OneDelimiterNote, OneDelimiterDashNote,
     TwoCoversNote, MixedImagesNote, DashValueNote, EmptyEanNote, ZeroEanNote,
     NullEanNote}

VolumeInfo(title, authors, publisher, pageCount, publishedDate, imageLinks) ==
    [title |-> title, authors |-> authors, publisher |-> publisher,
     pageCount |-> pageCount, publishedDate |-> publishedDate,
     imageLinks |-> imageLinks]

\* a reply with one item holding volumeInfo
ReplyWith(volumeInfo) ==
    [failed |-> FALSE, rejection |-> NoError,
     json |-> [totalItems |-> 1, items |-> << << [volumeInfo |-> <<volumeInfo>>] >> >>]]

\* the example of the specification
RepublicReply ==
    ReplyWith(VolumeInfo(<<<<"R","e","p","u","b","l","i","c">>>>, << <<<<"P","l","a","t","o">>>> >>, <<<<"P","e","n","g","u","i","n">>>>,
                         <<416>>, <<<<"1","9","5","5">>>>,
                         <<[thumbnail |-> <<<<"h","t","t","p",":","/","/","x","/","i","m","g","?","z","o","o","m","=","1">>>>]>>))

\* double quotes in the title and in the date, two authors, no publisher, a
\* thumbnail without zoom=1
QuotesReply ==
    ReplyWith(VolumeInfo(<<<<"S","a","y"," ","\"","H","i","\"">>>>, << <<<<"A","n","n">>, <<"B","o","b">>>> >>, <<>>,
                         <<7>>, <<<<"c","\"","9","9">>>>,
                         <<[thumbnail |-> <<<<"h","t","t","p",":","/","/","x","/","i">>>>]>>))

\* three hyphens in the title; no authors, page count, date or imageLinks
DashTitleReply ==
    ReplyWith(VolumeInfo(<<<<"A","-","-","-","B">>>>, <<>>, <<<<"Q">>>>, <<>>, <<>>, <<>>))

\* imageLinks without thumbnail
NoThumbnailReply ==
    ReplyWith(VolumeInfo(<<<<"R","e","p","u","b","l","i","c">>>>, << <<<<"P","l","a","t","o">>>> >>, <<<<"P","e","n","g","u","i","n">>>>,
                         <<416>>, <<<<"1","9","5","5">>>>, <<[thumbnail |-> <<>>]>>))

\* { totalItems: 0 }
ZeroItemsReply ==
    [failed |-> FALSE, rejection |-> NoError,
     json |-> [totalItems |-> 0, items |-> <<>>]]

\* { totalItems: 1, items: [] }
EmptyItemsReply ==
    [failed |-> FALSE, rejection |-> NoError,
     json |-> [totalItems |-> 1, items |-> << <<>> >>]]

\* { totalItems: 1, items: [ {} ] }
NoVolumeInfoReply ==
    [failed |-> FALSE, rejection |-> NoError,
     json |-> [totalItems |-> 1, items |-> << << [volumeInfo |-> <<>>] >> >>]]

\* the request failed: requestUrl rejected with an Error
FailedReply ==
    [failed |-> TRUE, rejection |-> RequestError,
     json |-> [totalItems |-> 0, items |-> <<>>]]

\* the request failed: requestUrl rejected with a value that is not an Error
FailedNonErrorReply ==
    [failed |-> TRUE, rejection |-> NonErrorRejection,
     json |-> [totalItems |-> 0, items |-> <<>>]]

Replies ==
    {RepublicReply, QuotesReply, DashTitleReply, NoThumbnailReply,
     ZeroItemsReply, EmptyItemsReply, NoVolumeInfoReply, FailedReply,
     FailedNonErrorReply}

\* ------------------------------------------------------------------------
\* The command: state and steps
\* ------------------------------------------------------------------------

\* how many times the command is invoked; invocations may overlap
NumInvocations == 2

Invocations == 1..NumInvocations

VARIABLES
    activeFile,     \* whether workspace.getActiveFile() returns a file
    frontmatterEan, \* metadataCache: the ean of the active file's frontmatter
    note,           \* the vault: the text of the active file
    pc,             \* per invocation: where it is suspended
    ean,            \* per invocation: the ean read from the cache, as text
    reply,          \* per invocation: what requestUrl settled with
    bookData,       \* per invocation: the metadata fetchBookMetadata returned
    content,        \* per invocation: the text vault.read returned
    finalContent,   \* per invocation: the text handed to vault.modify
    error,          \* per invocation: what the awaited call rejected with
    notices,        \* per invocation: the notices shown, in order
    writes          \* per invocation: completed vault.modify calls

vars == <<activeFile, frontmatterEan, note, pc, ean, reply, bookData, content,
          finalContent, error, notices, writes>>

NoReply ==
    [failed |-> FALSE, rejection |-> NoError,
     json |-> [totalItems |-> -1, items |-> <<>>]]

\* pc: "idle" not invoked; "requesting" in fetchBookMetadata at await
\* requestUrl; "fetched" fetchBookMetadata has settled, fetchMetadata not yet
\* resumed; "reading" at await vault.read; "writing" at await vault.modify;
\* "updated" updateNoteWithMetadata has settled, fetchMetadata not yet
\* resumed; "done" returned.
Init ==
    /\ activeFile \in BOOLEAN
    /\ \E n \in Notes : note = n.text /\ frontmatterEan = n.ean
    /\ pc = [i \in Invocations |-> "idle"]
    /\ ean = [i \in Invocations |-> <<>>]
    /\ reply = [i \in Invocations |-> NoReply]
    /\ bookData = [i \in Invocations |-> NoMetadata]
    /\ content = [i \in Invocations |-> <<>>]
    /\ finalContent = [i \in Invocations |-> <<>>]
    /\ error = [i \in Invocations |-> NoError]
    /\ notices = [i \in Invocations |-> <<>>]
    /\ writes = [i \in Invocations |-> 0]

\* fetchMetadata up to its first await: the active file, the ean of the
\* cache, the request sent
fetchMetadata(i) ==
    /\ pc[i] = "idle"
    /\ IF ~activeFile
       THEN /\ notices' = [notices EXCEPT ![i] = Append(@, NoFileNotice)]
            /\ pc' = [pc EXCEPT ![i] = "done"]
            /\ ean' = ean
       ELSE IF Len(frontmatterEan) = 0 \/ ~ToBoolean(frontmatterEan[1])
       THEN /\ notices' = [notices EXCEPT ![i] = Append(@, MissingEanNotice)]
            /\ pc' = [pc EXCEPT ![i] = "done"]
            /\ ean' = ean
       ELSE /\ notices' =
                [notices EXCEPT
                    ![i] = Append(@, SearchingNotice(StringOf(frontmatterEan[1])))]
            /\ pc' = [pc EXCEPT ![i] = "requesting"]
            /\ ean' = [ean EXCEPT ![i] = StringOf(frontmatterEan[1])]
    /\ UNCHANGED <<activeFile, frontmatterEan, note, reply, bookData, content,
                   finalContent, error, writes>>

\* requestUrl settles: the rest of fetchBookMetadata, which returns the
\* metadata or throws
requestUrlSettles(i) ==
    /\ pc[i] = "requesting"
    /\ \E r \in Replies :
         LET result == fetchBookMetadata(ean[i], r)
         IN  /\ reply' = [reply EXCEPT ![i] = r]
             /\ error' = [error EXCEPT ![i] = result.threw]
             /\ bookData' = IF result.threw # NoError THEN bookData
                            ELSE [bookData EXCEPT ![i] = result.metadata]
    /\ pc' = [pc EXCEPT ![i] = "fetched"]
    /\ UNCHANGED <<activeFile, frontmatterEan, note, ean, content, finalContent,
                   notices, writes>>

\* fetchMetadata resumes from await this.fetchBookMetadata(ean): the catch
\* block, or the call of updateNoteWithMetadata up to await vault.read
awaitFetchBookMetadata(i) ==
    /\ pc[i] = "fetched"
    /\ IF error[i] # NoError
       THEN /\ notices' = [notices EXCEPT ![i] = Append(@, ErrorNotice(error[i]))]
            /\ pc' = [pc EXCEPT ![i] = "done"]
       ELSE /\ pc' = [pc EXCEPT ![i] = "reading"]
            /\ notices' = notices
    /\ UNCHANGED <<activeFile, frontmatterEan, note, ean, reply, bookData,
                   content, finalContent, error, writes>>

\* vault.read rejects: updateNoteWithMetadata throws at its await
vaultReadRejects(i) ==
    /\ pc[i] = "reading"
    /\ error' = [error EXCEPT ![i] = ReadError]
    /\ pc' = [pc EXCEPT ![i] = "updated"]
    /\ UNCHANGED <<activeFile, frontmatterEan, note, ean, reply, bookData,
                   content, finalContent, notices, writes>>

\* vault.read settles, with the note written before the delimiter check
vaultReadSettlesCommitsEarly(i) ==
    /\ pc[i] = "reading"
    /\ LET result == updateNoteWithMetadata(note, bookData[i])
       IN  /\ content' = [content EXCEPT ![i] = note]
           /\ IF result.threw # NoError
              THEN /\ error' = [error EXCEPT ![i] = result.threw]
                   /\ pc' = [pc EXCEPT ![i] = "updated"]
                   /\ finalContent' = finalContent
                   /\ note' = imageMarkdown(bookData[i]) \o <<"\n","\n">> \o note
                   /\ writes' = [writes EXCEPT ![i] = @ + 1]
              ELSE /\ finalContent' =
                       [finalContent EXCEPT ![i] = result.finalContent]
                   /\ pc' = [pc EXCEPT ![i] = "writing"]
                   /\ error' = error
                   /\ UNCHANGED <<note, writes>>
    /\ UNCHANGED <<activeFile, frontmatterEan, ean, reply, bookData, notices>>

\* vault.read settles with the text of the note: the merge, which throws or
\* calls vault.modify
vaultReadSettles(i) ==
    /\ pc[i] = "reading"
    /\ LET result == updateNoteWithMetadata(note, bookData[i])
       IN  /\ content' = [content EXCEPT ![i] = note]
           /\ IF result.threw # NoError
              THEN /\ error' = [error EXCEPT ![i] = result.threw]
                   /\ pc' = [pc EXCEPT ![i] = "updated"]
                   /\ finalContent' = finalContent
              ELSE /\ finalContent' =
                       [finalContent EXCEPT ![i] = result.finalContent]
                   /\ pc' = [pc EXCEPT ![i] = "writing"]
                   /\ error' = error
    /\ UNCHANGED <<activeFile, frontmatterEan, note, ean, reply, bookData,
                   notices, writes>>

\* vault.modify rejects: nothing is written, updateNoteWithMetadata throws
vaultModifyRejects(i) ==
    /\ pc[i] = "writing"
    /\ error' = [error EXCEPT ![i] = ModifyError]
    /\ pc' = [pc EXCEPT ![i] = "updated"]
    /\ UNCHANGED <<activeFile, frontmatterEan, note, ean, reply, bookData,
                   content, finalContent, notices, writes>>

\* vault.modify settles, but a note changed since it was read is kept
vaultModifyKeepsNewer(i) ==
    /\ pc[i] = "writing"
    /\ note' = IF note = content[i] THEN finalContent[i] ELSE note
    /\ writes' = [writes EXCEPT ![i] = @ + 1]
    /\ pc' = [pc EXCEPT ![i] = "updated"]
    /\ UNCHANGED <<activeFile, frontmatterEan, ean, reply, bookData, content,
                   finalContent, error, notices>>

\* vault.modify settles: the note holds the text handed over, and
\* updateNoteWithMetadata returns
vaultModifySettles(i) ==
    /\ pc[i] = "writing"
    /\ note' = finalContent[i]
    /\ writes' = [writes EXCEPT ![i] = @ + 1]
    /\ pc' = [pc EXCEPT ![i] = "updated"]
    /\ UNCHANGED <<activeFile, frontmatterEan, ean, reply, bookData, content,
                   finalContent, error, notices>>

\* fetchMetadata resumes from await this.updateNoteWithMetadata(...): the
\* success notice, or the catch block
awaitUpdateNoteWithMetadata(i) ==
    /\ pc[i] = "updated"
    /\ notices' =
           [notices EXCEPT
               ![i] = Append(@, IF error[i] = NoError THEN SuccessNotice
                                ELSE ErrorNotice(error[i]))]
    /\ pc' = [pc EXCEPT ![i] = "done"]
    /\ UNCHANGED <<activeFile, frontmatterEan, note, ean, reply, bookData,
                   content, finalContent, error, writes>>

Next ==
    \E i \in Invocations :
        \/ fetchMetadata(i)
        \/ requestUrlSettles(i)
        \/ awaitFetchBookMetadata(i)
        \/ vaultReadSettles(i)
        \/ vaultReadRejects(i)
        \/ vaultModifySettles(i)
        \/ vaultModifyRejects(i)
        \/ awaitUpdateNoteWithMetadata(i)

Spec == Init /\ [][Next]_vars

\* The notes that differ in the path an invocation takes: fetchMetadata
\* depends on the note only through the ean of its frontmatter (absent,
\* falsy, present) and through the presence of a second "---" in its text.
PathNotes ==
    {PlainNote, OneDelimiterNote, NoEanNote, EmptyEanNote, ZeroEanNote,
     NullEanNote}

InitPaths == Init /\ note \in {n.text : n \in PathNotes}

\* the command on the notes of PathNotes
SpecPaths == InitPaths /\ [][Next]_vars

\* ------------------------------------------------------------------------
\* Vocabulary of the properties
\* ------------------------------------------------------------------------

\* the lines of a text
RECURSIVE SplitLines(_)
SplitLines(s) ==
    LET nl == IndexOf(s, <<"\n">>, 0)
    IN  IF nl = -1 THEN <<s>>
        ELSE <<SubSeq(s, 1, nl)>> \o SplitLines(SubstringFrom(s, nl + 1))

\* the numbers of the lines of a text that are a delimiter line
DelimiterLines(text) ==
    {k \in 1..Len(SplitLines(text)) : SplitLines(text)[k] = Delimiter}

\* the text opens with a delimiter line and has a second one
HasBlock(text) == 1 \in DelimiterLines(text) /\ Cardinality(DelimiterLines(text)) >= 2

\* the number of the line closing the block
ClosingLine(text) == Min(DelimiterLines(text) \ {1})

\* the lines of the block between its two delimiter lines
BlockLines(text) == SubSeq(SplitLines(text), 2, ClosingLine(text) - 1)

\* the lines after the block
BodyLines(text) ==
    SubSeq(SplitLines(text), ClosingLine(text) + 1, Len(SplitLines(text)))

\* a well-formed document: a two-delimiter block whose lines hold no three
\* hyphens of their own
WellFormed(text) ==
    /\ HasBlock(text)
    /\ \A k \in 1..Len(BlockLines(text)) :
           IndexOf(BlockLines(text)[k], Delimiter, 0) = -1

IsTargetLine(line) ==
    \E k \in 1..Len(keysToUpdate) : StartsWithAt(line, keysToUpdate[k] \o <<":">>, 0)

\* the lines of seq whose numbers are in keep, from line k on, in order
RECURSIVE PickLines(_, _, _)
PickLines(seq, keep, k) ==
    IF k > Len(seq) THEN <<>>
    ELSE (IF k \in keep THEN <<seq[k]>> ELSE <<>>) \o PickLines(seq, keep, k + 1)

\* the block lines that belong to none of the five target keys
OtherBlockLines(text) ==
    LET lines == BlockLines(text)
    IN  PickLines(lines, {k \in 1..Len(lines) : ~IsTargetLine(lines[k])}, 1)

\* the body lines that are not blank and hold no image markdown
PlainBodyLines(text) ==
    LET lines == BodyLines(text)
    IN  PickLines(lines,
                  {k \in 1..Len(lines) :
                       Trim(lines[k]) # <<>> /\ IndexOf(lines[k], <<"!","[">>, 0) = -1},
                  1)

\* line[p .. d] is an image reference ![alt](url); c is the position of "]"
IsImageRef(line, p, c, d) ==
    /\ StartsWithAt(line, <<"!","[">>, p)
    /\ p + 2 <= c /\ c + 1 < d /\ d < Len(line)
    /\ StartsWithAt(line, <<"]","(">>, c)
    /\ \A k \in (p + 2)..(c - 1) : line[k + 1] # "]"
    /\ line[d + 1] = ")"
    /\ \A k \in (c + 2)..(d - 1) : line[k + 1] # ")"

\* the image references of a line as <<position, text, sized to width 300>>
ImageRefs(line) ==
    {<<p, SubSeq(line, p + 1, d + 1), StartsWithAt(line, <<"|","3","0","0">>, c - 4)>> :
        <<p, c, d>> \in {t \in (0..Len(line)) \X (0..Len(line)) \X (0..Len(line)) :
                            IsImageRef(line, t[1], t[2], t[3])}}

\* the image references of the body as <<line, position, text, sized>>
BodyImageRefs(text) ==
    UNION {{<<k, r[1], r[2], r[3]>> : r \in ImageRefs(BodyLines(text)[k])} :
              k \in 1..Len(BodyLines(text))}

\* the texts of the body's image references that are not sized to width 300
UnsizedImages(text) == {r[3] : r \in {q \in BodyImageRefs(text) : ~q[4]}}

\* the body's image references sized to width 300
SizedImages(text) == {q \in BodyImageRefs(text) : q[4]}

\* invocation i has merged the text it read and handed the result to
\* vault.modify
HasMerged(i) == finalContent[i] # <<>>

\* the block in the text that invocation i handed to vault.modify
WrittenBlock(i) ==
    newFrontmatter(frontmatterBlock(content[i], fmEndMatchIndex(content[i])),
                   bookData[i])

\* the body in the text that invocation i handed to vault.modify
WrittenBody(i) ==
    UpdateBody(contentBlock(content[i], fmEndMatchIndex(content[i])),
               bookData[i])

\* invocation i has ended with the success notice
Succeeded(i) ==
    pc[i] = "done" /\ notices[i] # <<>> /\ notices[i][Len(notices[i])] = SuccessNotice

\* invocation i has ended otherwise
Failed(i) ==
    pc[i] = "done" /\ notices[i] # <<>> /\ notices[i][Len(notices[i])] # SuccessNotice

\* the step in which the vault.modify of invocation i takes effect
WriteStep(i) ==
    pc[i] = "writing" /\ pc'[i] = "updated" /\ writes'[i] = writes[i] + 1

\* ------------------------------------------------------------------------
\* C7
\* ------------------------------------------------------------------------

\* the notices an invocation that fails can end with
FailureNotices(i) ==
    {NoFileNotice, MissingEanNotice,
     ErrorNotice(NotFoundError(ean[i])), ErrorNotice(MalformedError),
     ErrorNotice(RequestError), ErrorNotice(NonErrorRejection),
     ErrorNotice(ReadError), ErrorNotice(ModifyError),
     ErrorNotice(TypeError(<<"t","i","t","l","e">>)), ErrorNotice(TypeError(<<"r","e","p","l","a","c","e">>))}

\* C7: no partial commit.  Every invocation completes vault.modify at most
\* once; an invocation that has ended has completed it exactly if it ended
\* with the success notice, and an invocation that has completed it is on its
\* way to that notice with nothing thrown; an invocation that has ended in a
\* failure has shown one of the failure notices last and has written nothing;
\* and as long as no invocation has completed a write the note holds its
\* original text.
NoPartialCommit ==
    /\ \A i \in Invocations :
        /\ writes[i] <= 1
        /\ writes[i] = 1 => pc[i] \in {"updated", "done"} /\ error[i] = NoError
        /\ pc[i] = "done" => ((writes[i] = 1) <=> Succeeded(i))
        /\ pc[i] = "done" => Succeeded(i) \/ Failed(i)
        /\ Failed(i) =>
              /\ writes[i] = 0
              /\ notices[i][Len(notices[i])] \in FailureNotices(i)
    /\ (\A i \in Invocations : writes[i] = 0) => note \in {n.text : n \in Notes}

\* C7 witness: one invocation has written the note and shown the success
\* notice, another has ended with the NotFound notice and written nothing.
NoPartialCommitWitness ==
    \E i, j \in Invocations :
        /\ Succeeded(i) /\ writes[i] = 1
        /\ note = finalContent[i] /\ note # content[i]
        /\ Failed(j) /\ writes[j] = 0
        /\ notices[j][Len(notices[j])] = ErrorNotice(NotFoundError(Ean))

\* ------------------------------------------------------------------------
\* C10
\* ------------------------------------------------------------------------

\* C10 as claimed: the read, the merge and the write of an invocation are one
\* step, so every write is computed from the text that is in the note
\* immediately before it and is the merge of that text.
WriteMergesCurrentNote ==
    [][\A i \in Invocations :
          WriteStep(i) =>
              /\ content[i] = note
              /\ note' = updateNoteWithMetadata(note, bookData[i]).finalContent]_vars

\* C10 amended: an invocation is suspended at the request, at vault.read and
\* at vault.modify, and again each time fetchBookMetadata or
\* updateNoteWithMetadata has settled.  Every write stores the merge of the
\* text that the invocation read (whatever the note holds by then), and the
\* note changes only by such a write: the last writer wins.
LastWriterWins ==
    [][/\ \A i \in Invocations :
              WriteStep(i) =>
                  /\ note' = finalContent[i]
                  /\ finalContent[i] =
                         updateNoteWithMetadata(content[i], bookData[i]).finalContent
       /\ note' # note => \E i \in Invocations : WriteStep(i)]_vars

\* C10 witness: two invocations read the same text, both wrote, their merges
\* differ, and the note holds the merge of one of them: the other write, made
\* in between, is gone and was never read.
LastWriterWinsWitness ==
    \E i, j \in Invocations :
        /\ i # j
        /\ Succeeded(i) /\ Succeeded(j)
        /\ content[i] = content[j]
        /\ finalContent[i] # finalContent[j]
        /\ content[j] # finalContent[i]
        /\ note = finalContent[j]

\* ------------------------------------------------------------------------
\* C1 - C6, C8, C9
\* ------------------------------------------------------------------------

\* C1: idempotence.  When invocation i merged a well-formed document with an
\* ean, and invocation j read the document written by i and merged it under
\* the same reply, the block and the body written by j are those written
\* by i.
SecondRunIdempotent ==
    \A i, j \in Invocations :
        ( /\ i # j
          /\ HasMerged(i) /\ HasMerged(j)
          /\ WellFormed(content[i]) /\ ean[i] # <<>>
          /\ content[j] = finalContent[i]
          /\ reply[j] = reply[i] )
        => /\ WrittenBlock(j) = WrittenBlock(i)
           /\ WrittenBody(j) = WrittenBody(i)

\* C2: frame of a successful run on a well-formed document.  The block lines
\* of the other keys are the same lines in the same order before and after,
\* the body lines without image markdown are the same lines in the same order,
\* and every image reference of the body that is not sized to width 300 is
\* still in the body.
FrameOfSuccessfulRun ==
    \A i \in Invocations :
        (HasMerged(i) /\ WellFormed(content[i])) =>
            /\ HasBlock(finalContent[i])
            /\ OtherBlockLines(finalContent[i]) = OtherBlockLines(content[i])
            /\ PlainBodyLines(finalContent[i]) = PlainBodyLines(content[i])
            /\ UnsizedImages(content[i]) \subseteq UnsizedImages(finalContent[i])

\* C3: after a successful run on a well-formed document the body holds
\* exactly one image reference sized to width 300, and it is the reference to
\* the resolved cover URL.
ExactlyOneSizedImage ==
    \A i \in Invocations :
        (HasMerged(i) /\ WellFormed(content[i])) =>
            /\ HasBlock(finalContent[i])
            /\ Cardinality(SizedImages(finalContent[i])) = 1
            /\ \A r \in SizedImages(finalContent[i]) : r[3] = imageMarkdown(bookData[i])

\* C4: for an invocation that read a text with exactly one delimiter line,
\* updateNoteWithMetadata has thrown the MalformedDocument error without
\* handing a text to vault.modify, nothing is written, and the invocation
\* ends with the MalformedDocument notice.
OneDelimiterLineFails ==
    \A i \in Invocations :
        (content[i] # <<>> /\ Cardinality(DelimiterLines(content[i])) = 1) =>
            /\ error[i] = MalformedError
            /\ finalContent[i] = <<>>
            /\ writes[i] = 0
            /\ pc[i] \in {"updated", "done"}
            /\ pc[i] = "done" =>
                   notices[i][Len(notices[i])] = ErrorNotice(MalformedError)

\* the reply has no first result: totalItems 0, items absent or items empty
EmptyResultSet(json) ==
    \/ json.totalItems = 0
    \/ json.items = <<>>
    \/ json.items = << <<>> >>

\* the first result of the reply has no volumeInfo
FirstLacksVolumeInfo(json) ==
    /\ ~EmptyResultSet(json)
    /\ json.items[1][1].volumeInfo = <<>>

\* C5: for an invocation whose reply has an empty result set, or whose first
\* result lacks volumeInfo, fetchBookMetadata has thrown the NotFound error
\* echoing its ean, there is no metadata, and the invocation ends with the
\* NotFound notice.
NotFoundCases ==
    \A i \in Invocations :
        ( /\ reply[i] # NoReply /\ ~reply[i].failed
          /\ EmptyResultSet(reply[i].json) \/ FirstLacksVolumeInfo(reply[i].json) )
        => /\ error[i] = NotFoundError(ean[i])
           /\ bookData[i] = NoMetadata
           /\ pc[i] \in {"fetched", "done"}
           /\ pc[i] = "done" =>
                  notices[i][Len(notices[i])] = ErrorNotice(NotFoundError(ean[i]))

\* C6: an invocation whose reply holds volumeInfo has metadata; its coverUrl
\* is the thumbnail with zoom=1 replaced by zoom=5 if there is a thumbnail,
\* and 'No cover available' if imageLinks or the thumbnail is absent.
CoverUrlMapping ==
    \A i \in Invocations :
        ( /\ reply[i] # NoReply /\ ~reply[i].failed
          /\ ~EmptyResultSet(reply[i].json)
          /\ ~FirstLacksVolumeInfo(reply[i].json) )
        => LET links == reply[i].json.items[1][1].volumeInfo[1].imageLinks
           IN  /\ bookData[i] # NoMetadata
               /\ bookData[i].coverUrl =
                     IF links # <<>> /\ links[1].thumbnail # <<>>
                     THEN ReplaceString(links[1].thumbnail[1], <<"z","o","o","m","=","1">>, <<"z","o","o","m","=","5">>)
                     ELSE <<"N","o"," ","c","o","v","e","r"," ","a","v","a","i","l","a","b","l","e">>

\* C8: after a successful run on a document with a two-delimiter block, each
\* of the five keys has a line in the written block that is its line
\* 'key: value' with the mapped value, and the last line of the written block
\* is the closing delimiter.
FiveKeysInBlock ==
    \A i \in Invocations :
        (HasMerged(i) /\ HasBlock(content[i])) =>
            LET lines == SplitLines(WrittenBlock(i))
            IN  /\ \A k \in 1..Len(keysToUpdate) :
                       \E l \in 1..Len(lines) :
                           lines[l] = newFrontmatterLines(bookData[i])[k]
                /\ lines[Len(lines)] = Delimiter

\* every double quote of text follows a backslash
NoBareQuote(text) ==
    \A k \in 1..Len(text) : text[k] = "\"" => (k > 1 /\ text[k - 1] = "\\")

\* line is key: "text" where text has no bare double quote
IsQuotedLine(line, key) ==
    /\ StartsWithAt(line, key \o <<":"," ","\"">>, 0)
    /\ Len(line) >= Len(key) + 4
    /\ line[Len(line)] = "\""
    /\ NoBareQuote(SubSeq(line, Len(key) + 4, Len(line) - 1))

\* line is key: digits
IsNumberLine(line, key) ==
    /\ StartsWithAt(line, key \o <<":"," ">>, 0)
    /\ Len(line) > Len(key) + 2
    /\ \A k \in (Len(key) + 3)..Len(line) : \E d \in 1..10 : line[k] = Digits[d]

\* C9: of the five lines built from the metadata of an invocation, the four
\* string-valued ones are the key and the value in double quotes with no bare
\* double quote inside, and the pages line is the key and a bare integer.
LinesWellQuoted ==
    \A i \in Invocations :
        bookData[i] # NoMetadata =>
            LET lines == newFrontmatterLines(bookData[i])
            IN  /\ IsQuotedLine(lines[1], <<"t","i","t","l","e">>)
                /\ IsQuotedLine(lines[2], <<"a","u","t","h","o","r">>)
                /\ IsQuotedLine(lines[3], <<"e","d","i","t","o","r">>)
                /\ IsNumberLine(lines[4], <<"p","a","g","e","s">>)
                /\ IsQuotedLine(lines[5], <<"p","u","b","l","i","s","h","e","d","_","d","a","t","e">>)

====
